---- MODULE Spec2Model ----
(***************************************************************************)
(* planif: the typed ScheduleBuilder, the Schedule it builds and the       *)
(* reference-counted ComRuntime handle (src/src/schedule_builder.rs,       *)
(* src/src/schedule.rs).                                                   *)
(*                                                                         *)
(* The Windows Task Scheduler objects behind the COM interfaces are the    *)
(* external collaborator.  Their calls are taken to succeed, except        *)
(* CoInitializeEx, the creation of the task service and definition in     *)
(* ScheduleBuilder::new and the registration of a task; of their           *)
(* state the model keeps what the builder logic reads or the properties    *)
(* below observe: the trigger collection, each trigger's start boundary,   *)
(* the action collection, the registration info and the principal.  The    *)
(* value a kind-specific setter passes to the trigger is recorded in       *)
(* `last`.                                                                 *)
(*                                                                         *)
(* Every builder method takes `self` by value: a call that returns Err     *)
(* drops the builder, and with it the builder's ComRuntime clone.          *)
(*                                                                         *)
(* Further specifications share the variables: SpecAcquire (several        *)
(* ComRuntime::new() calls in one process), SpecThreads (clones of one     *)
(* handle made and dropped on two threads), SpecFormat (Display for        *)
(* Duration, src/src/settings.rs, applied to a bounded set of Durations),  *)
(* SpecPath (the path TaskScheduler::get_schedule of                       *)
(* src/src/task_scheduler.rs looks a task up under),                       *)
(* SpecEncode (the flag enums of src/src/enums.rs and the folds of the     *)
(* list setters), SpecTrigger (trigger() with any id), SpecBuild (a Boot   *)
(* or Daily builder with settings()), SpecSetters (a Daily builder with    *)
(* every setter of all kinds), SpecRewrite (setters called twice),         *)
(* SpecActions (several actions) and SpecPair (two builders of one         *)
(* handle).                                                                *)
(***************************************************************************)
EXTENDS Integers, Sequences, FiniteSets, TLC

VARIABLES
    strong,     \* strong[r]: strong count of the Rc<Com> of runtime r
    comState,   \* comState[r]: "unused", "live" (Com exists) or "torn" (Com dropped)
    uninits,    \* uninits[r]: how often Com::drop ran CoUninitialize for r
    held,       \* held[r]: ComRuntime values of r the caller owns (original and clones)
    builder,    \* builder[b]: the ScheduleBuilder / Schedule value b
    last,       \* the last builder or schedule call and its result
    threads,    \* threads[t]: a thread that makes and drops clones of a shared handle
    dur,        \* the Duration value handed to Display::fmt
    formatted,  \* the string Display::fmt wrote for `dur`, NotFormatted before
    item,       \* a list of values of one flag enum, about to be encoded
    encoded,    \* the integers the list was encoded to, NotEncoded before
    path,       \* the task path handed to TaskScheduler::get_schedule
    lookup      \* the folder and task name get_schedule asked for, NoLookup before

vars == <<strong, comState, uninits, held, builder, last, threads, dur, formatted,
         item, encoded, path, lookup>>

\* the state outside the builder and its runtime handle
aux == <<threads, dur, formatted, item, encoded, path, lookup>>

(* ---------------- bounds ---------------- *)
MaxHandles == 2
MaxTriggers == 2
MaxActions == 2
MaxThreadBuilders == 2
MaxStrong == 4
MaxField == 2
MaxListLen == 2

RuntimeIds == {"com"}
BuilderIds == {"sb"}

(* ---------------- marker types and data ---------------- *)
Base == "Base"
Boot == "Boot"
Daily == "Daily"
Event == "Event"
Idle == "Idle"
Logon == "Logon"
Monthly == "Monthly"
MonthlyDOW == "MonthlyDOW"
Registration == "Registration"
Time == "Time"
Weekly == "Weekly"

Kinds == {Boot, Daily, Event, Idle, Logon, Monthly, MonthlyDOW, Registration, Time, Weekly}

None == "None"

InvalidOperationError == "InvalidOperation"
RequiredPropertyError == "RequiredProperty"
\* a windows::core::Error that `?` boxes and returns
ComError == "windows::core::Error"
Ok == "Ok"
\* the call did not return: arithmetic overflow in a build with overflow checks
Panic == "Panic"

\* DayOfMonth::Day(n) and DayOfMonth::Last
Day(n) == [tag |-> "Day", n |-> n]
Last == [tag |-> "Last", n |-> 0]

\* PrincipalSettings, reduced to the two optional identifiers
PrincipalSettings(gid, uid) == [group_id |-> gid, user_id |-> uid]

\* the Schedule that ScheduleBuilder::new assembles
Schedule ==
    [ force_start_boundary |-> FALSE,
      trigger |-> 0,            \* Option<ITrigger>: 0 is None, i > 0 refers to triggers[i]
      triggers |-> << >>,       \* ITriggerCollection
      actions |-> << >>,        \* IActionCollection
      registration_info |-> [author |-> None, description |-> None],
      principal |-> [group_id |-> None, user_id |-> None],
      \* ITaskSettings, reduced to two Option<bool> values: << >> is unset
      settings |-> [enabled |-> << >>, hidden |-> << >>] ]

\* a builder slot before ScheduleBuilder::new
\* com: the ComRuntime clone the value owns; origin: the runtime it was constructed with
NoBuilder ==
    [life |-> "none", frequency |-> Base, com |-> None, origin |-> None,
     schedule |-> Schedule]

NoCall == [b |-> "none", op |-> "none", res |-> Ok, input |-> 0, arg |-> 0]

\* input: the argument of the call; arg: the value the call passed on to the
\* Task Scheduler object (0 when none)
Call(b, op, res, input, arg) ==
    [b |-> b, op |-> op, res |-> res, input |-> input, arg |-> arg]

(* ---------------- ComRuntime ---------------- *)

\* Drop of one ComRuntime value of runtime r: Rc decrement, Com::drop at zero
RcDropStrong(r) == [strong EXCEPT ![r] = @ - 1]
RcDropState(r) == [comState EXCEPT ![r] = IF strong[r] = 1 THEN "torn" ELSE @]
\* variant: every drop of a handle runs the teardown
RcDropUninits_every_drop(r) == [uninits EXCEPT ![r] = @ + 1]

RcDropUninits(r) == [uninits EXCEPT ![r] = IF strong[r] = 1 THEN @ + 1 ELSE @]

\* variant: the Com value exists before CoInitializeEx is called, so the error
\* path drops it and runs the teardown
ComRuntime_new_com_first(r, initialized) ==
    /\ comState[r] = "unused"
    /\ IF initialized
       THEN /\ comState' = [comState EXCEPT ![r] = "live"]
            /\ strong' = [strong EXCEPT ![r] = 1]
            /\ held' = [held EXCEPT ![r] = 1]
            /\ UNCHANGED uninits
       ELSE /\ comState' = [comState EXCEPT ![r] = "failed"]
            /\ uninits' = [uninits EXCEPT ![r] = @ + 1]
            /\ UNCHANGED <<strong, held>>
    /\ UNCHANGED <<builder, last, aux>>

\* ComRuntime::new() -> Result<Self>: Com::initialize()? runs CoInitializeEx
\* and only then builds the Com value that goes into a fresh Rc.
\* `initialized` is whether CoInitializeEx succeeded; on failure `?` returns
\* before a Com exists (comState "failed").
ComRuntime_new(r, initialized) ==
    /\ comState[r] = "unused"
    /\ IF initialized
       THEN /\ comState' = [comState EXCEPT ![r] = "live"]
            /\ strong' = [strong EXCEPT ![r] = 1]
            /\ held' = [held EXCEPT ![r] = 1]
       ELSE /\ comState' = [comState EXCEPT ![r] = "failed"]
            /\ UNCHANGED <<strong, held>>
    /\ UNCHANGED <<uninits, builder, last, aux>>

ComRuntime_clone(r) ==
    /\ held[r] >= 1
    /\ held[r] < MaxHandles
    /\ strong' = [strong EXCEPT ![r] = @ + 1]
    /\ held' = [held EXCEPT ![r] = @ + 1]
    /\ UNCHANGED <<comState, uninits, builder, last, aux>>

ComRuntime_drop(r) ==
    /\ held[r] >= 1
    /\ held' = [held EXCEPT ![r] = @ - 1]
    /\ strong' = RcDropStrong(r)
    /\ comState' = RcDropState(r)
    /\ uninits' = RcDropUninits(r)
    /\ UNCHANGED <<builder, last, aux>>

(* ---------------- builder plumbing ---------------- *)

IsBuilder(b) == builder[b].life = "builder"

\* variant: the builders made from one runtime handle write to one task definition
Keep_shared_definition(b, s, op, input, arg) ==
    /\ builder' = [c \in DOMAIN builder |->
                      IF builder[c].life = "builder" /\ builder[c].origin = builder[b].origin
                      THEN [builder[c] EXCEPT !.schedule = s]
                      ELSE builder[c]]
    /\ last' = Call(b, op, Ok, input, arg)
    /\ UNCHANGED <<strong, comState, uninits, held, aux>>

\* the call returns Ok(self) with the schedule s
Keep(b, s, op, input, arg) ==
    /\ builder' = [builder EXCEPT ![b].schedule = s]
    /\ last' = Call(b, op, Ok, input, arg)
    /\ UNCHANGED <<strong, comState, uninits, held, aux>>

\* the call returns Err(e): self, and the ComRuntime clone in it, is dropped
Fail(b, op, e, input) ==
    /\ builder' = [builder EXCEPT ![b].life = "dropped", ![b].com = None,
                                  ![b].schedule = Schedule]
    /\ last' = Call(b, op, e, input, 0)
    /\ strong' = RcDropStrong(builder[b].com)
    /\ comState' = RcDropState(builder[b].com)
    /\ uninits' = RcDropUninits(builder[b].com)
    /\ UNCHANGED <<held, aux>>

trigger_uninitialised_error == InvalidOperationError

\* variant: the clone made on entry is not released when the call fails
ScheduleBuilder_new_keeps_clone(b, r, created) ==
    /\ builder[b].life = "none"
    /\ held[r] >= 1
    /\ strong' = [strong EXCEPT ![r] = @ + 1]
    /\ IF created
       THEN /\ builder' = [builder EXCEPT ![b] =
                    [life |-> "builder", frequency |-> Base, com |-> r, origin |-> r,
                     schedule |-> Schedule]]
            /\ last' = Call(b, "new", Ok, 0, 0)
       ELSE /\ builder' = builder
            /\ last' = Call(b, "new", ComError, 0, 0)
    /\ UNCHANGED <<comState, uninits, held, aux>>

\* ScheduleBuilder::new(com): com.clone() first, then the task service and the
\* task definition are created; `created` is whether those calls succeeded.
\* When one fails, `?` returns and the clone is dropped with the other locals.
ScheduleBuilder_new(b, r, created) ==
    /\ builder[b].life = "none"
    /\ held[r] >= 1
    /\ IF created
       THEN /\ strong' = [strong EXCEPT ![r] = @ + 1]
            /\ builder' = [builder EXCEPT ![b] =
                    [life |-> "builder", frequency |-> Base, com |-> r, origin |-> r,
                     schedule |-> Schedule]]
            /\ last' = Call(b, "new", Ok, 0, 0)
       ELSE /\ strong' = strong
            /\ builder' = builder
            /\ last' = Call(b, "new", ComError, 0, 0)
    /\ UNCHANGED <<comState, uninits, held, aux>>

\* variant: create_<kind> is a method of every ScheduleBuilder<Frequency>
Transition_from_any_kind(b, kind, force, op) ==
    /\ IsBuilder(b)
    /\ builder' = [builder EXCEPT ![b].frequency = kind,
                                  ![b].schedule.force_start_boundary = IF force THEN TRUE ELSE @]
    /\ last' = Call(b, op, Ok, 0, 0)
    /\ UNCHANGED <<strong, comState, uninits, held, aux>>

\* create_<kind>: the marker type changes, the schedule moves over; `force` is
\* whether the method sets schedule.force_start_boundary
Transition(b, kind, force, op) ==
    /\ IsBuilder(b)
    /\ builder[b].frequency = Base
    /\ builder' = [builder EXCEPT ![b].frequency = kind,
                                  ![b].schedule.force_start_boundary = IF force THEN TRUE ELSE @]
    /\ last' = Call(b, op, Ok, 0, 0)
    /\ UNCHANGED <<strong, comState, uninits, held, aux>>

create_boot(b) == Transition(b, Boot, FALSE, "create_boot")
\* variant: create_daily leaves the start-boundary obligation unset
create_daily_no_obligation(b) == Transition(b, Daily, FALSE, "create_daily")

create_daily(b) == Transition(b, Daily, TRUE, "create_daily")
create_event(b) == Transition(b, Event, TRUE, "create_event")
create_idle(b) == Transition(b, Idle, FALSE, "create_idle")
create_logon(b) == Transition(b, Logon, FALSE, "create_logon")
create_monthly(b) == Transition(b, Monthly, FALSE, "create_monthly")
create_monthly_dow(b) == Transition(b, MonthlyDOW, TRUE, "create_monthly_dow")
create_registration(b) == Transition(b, Registration, FALSE, "create_registration")
create_time(b) == Transition(b, Time, TRUE, "create_time")
create_weekly(b) == Transition(b, Weekly, FALSE, "create_weekly")

\* triggers.Create(type), SetId, SetEnabled, schedule.trigger = Some(new trigger)
NewTrigger(kind, id, enabled) ==
    [kind |-> kind, id |-> id, enabled |-> enabled, start_boundary |-> None]

CreateTrigger(b, kind, id, enabled, force) ==
    /\ IsBuilder(b)
    /\ builder[b].frequency = kind
    /\ Len(builder[b].schedule.triggers) < MaxTriggers
    /\ LET s == builder[b].schedule
       IN Keep(b, [s EXCEPT !.force_start_boundary = IF force THEN TRUE ELSE @,
                            !.triggers = Append(@, NewTrigger(kind, id, enabled)),
                            !.trigger = Len(s.triggers) + 1],
               "trigger", <<id, enabled>>, 0)

Boot_trigger(b, id, enabled) == CreateTrigger(b, Boot, id, enabled, FALSE)
Daily_trigger(b, id, enabled) == CreateTrigger(b, Daily, id, enabled, FALSE)
Event_trigger(b, id, enabled) == CreateTrigger(b, Event, id, enabled, FALSE)
Idle_trigger(b, id, enabled) == CreateTrigger(b, Idle, id, enabled, FALSE)
Logon_trigger(b, id, enabled) == CreateTrigger(b, Logon, id, enabled, FALSE)
Monthly_trigger(b, id, enabled) == CreateTrigger(b, Monthly, id, enabled, TRUE)
MonthlyDOW_trigger(b, id, enabled) == CreateTrigger(b, MonthlyDOW, id, enabled, FALSE)
Registration_trigger(b, id, enabled) == CreateTrigger(b, Registration, id, enabled, FALSE)
Time_trigger(b, id, enabled) == CreateTrigger(b, Time, id, enabled, FALSE)
Weekly_trigger(b, id, enabled) == CreateTrigger(b, Weekly, id, enabled, FALSE)

\* `if let Some(trigger) = &self.schedule.trigger { trigger.SetX(arg); Ok(self) }
\*  else { Err(trigger_uninitialised_error()) }`
HasTrigger(b) == builder[b].schedule.trigger # 0

\* variant: the setter does not look at schedule.trigger
TriggerSetter_unchecked(b, kind, op, input, arg) ==
    /\ IsBuilder(b)
    /\ builder[b].frequency = kind
    /\ Keep(b, builder[b].schedule, op, input, arg)

TriggerSetter(b, kind, op, input, arg) ==
    /\ IsBuilder(b)
    /\ builder[b].frequency = kind
    /\ IF HasTrigger(b)
       THEN Keep(b, builder[b].schedule, op, input, arg)
       ELSE Fail(b, op, trigger_uninitialised_error, input)

(* ---------------- Duration (settings.rs) ---------------- *)

\* Option<usize>: << >> is None, <<n>> is Some(n)
Some(n) == <<n>>
Absent == << >>
is_some(o) == o # << >>

\* `formatted` before Display::fmt has run
NotFormatted == "NotFormatted"

Duration_new ==
    [years |-> Absent, months |-> Absent, days |-> Absent,
     hours |-> Absent, minutes |-> Absent, seconds |-> Absent]

\* variant: a field is emitted whenever it is Some, zero included
format_duration_emit_zero(str, num, code) ==
    IF is_some(num) THEN str \o ToString(num[1]) \o code ELSE str

\* macro format_duration!(str, num, code)
format_duration(str, num, code) ==
    IF is_some(num) /\ num[1] > 0 THEN str \o ToString(num[1]) \o code ELSE str

\* variant: months are written before years
Duration_to_string_months_first(d) ==
    LET s1 == format_duration("", d.months, "M")
        s2 == format_duration(s1, d.years, "Y")
        s3 == format_duration(s2, d.days, "D")
        s4 == IF is_some(d.hours) \/ is_some(d.minutes) \/ is_some(d.hours)
              THEN format_duration(
                     format_duration(
                       format_duration(s3 \o "T", d.hours, "H"),
                       d.minutes, "M"),
                     d.seconds, "S")
              ELSE s3
    IN "P" \o s4

\* impl fmt::Display for Duration
Duration_to_string(d) ==
    LET s1 == format_duration("", d.years, "Y")
        s2 == format_duration(s1, d.months, "M")
        s3 == format_duration(s2, d.days, "D")
        s4 == IF is_some(d.hours) \/ is_some(d.minutes) \/ is_some(d.hours)
              THEN format_duration(
                     format_duration(
                       format_duration(s3 \o "T", d.hours, "H"),
                       d.minutes, "M"),
                     d.seconds, "S")
              ELSE s3
    IN "P" \o s4

(* ---------------- calendar encodings (enums.rs) ---------------- *)

\* A 32-bit pattern is kept as <<high half, low half>>, each in 0..65535.
Half == 2 ^ 16

\* variant: the shift is done in 16 bits
Bit32_in_16_bits(k) == <<0, 2 ^ (k % 16)>>

Bit32(k) == IF k < 16 THEN <<0, 2 ^ k>> ELSE <<2 ^ (k - 16), 0>>

IsNegative32(p) == p[1] >= Half \div 2

\* wrapping 32-bit addition
Add32(p, q) ==
    LET lo == p[2] + q[2]
    IN <<(p[1] + q[1] + (lo \div Half)) % Half, lo % Half>>

\* signed addition leaves the i32 range
AddOverflows32(p, q) ==
    /\ IsNegative32(p) = IsNegative32(q)
    /\ IsNegative32(Add32(p, q)) # IsNegative32(p)

\* the pattern read as an i32
AsI32(p) == (IF IsNegative32(p) THEN p[1] - Half ELSE p[1]) * Half + p[2]

\* `item` and `encoded` while no encoding is looked at
NoItem == [enum |-> None, list |-> << >>]
NotEncoded == [each |-> << >>, res |-> None, mask |-> <<0, 0>>]

\* variant: the shift is by i, not i - 1
DayOfMonth_into_i32_shift_by_day(day) ==
    IF day.tag = "Last" THEN Bit32(31) ELSE Bit32(day.n % 32)

\* impl From<DayOfMonth> for i32: Day(i) => 1 << (i - 1), Last => 0x80000000.
\* The shift amount is taken modulo 32, as a build without overflow checks does.
DayOfMonth_into_i32(day) ==
    IF day.tag = "Last" THEN Bit32(31) ELSE Bit32((day.n - 1) % 32)

\* days.into_iter().fold(0, |acc, item| acc + i32::from(item))
RECURSIVE SumDays(_)
SumDays(days) ==
    IF days = << >> THEN <<0, 0>>
    ELSE Add32(SumDays(SubSeq(days, 1, Len(days) - 1)), DayOfMonth_into_i32(days[Len(days)]))

\* does some step of the fold `acc + day` leave the i32 range
RECURSIVE OverflowsI32(_)
OverflowsI32(days) ==
    IF days = << >> THEN FALSE
    ELSE \/ OverflowsI32(SubSeq(days, 1, Len(days) - 1))
         \/ AddOverflows32(SumDays(SubSeq(days, 1, Len(days) - 1)),
                           DayOfMonth_into_i32(days[Len(days)]))

\* `as i16` wrap
WrapI16(x) == ((x + 2^15) % 2^16) - 2^15

\* list.into_iter().fold(0, |acc, item| acc + item as i16)
RECURSIVE SumFlags(_)
SumFlags(flags) ==
    IF flags = << >> THEN 0
    ELSE SumFlags(SubSeq(flags, 1, Len(flags) - 1)) + flags[Len(flags)]

\* does some step of the fold `acc + item as i16` leave the i16 range
RECURSIVE OverflowsI16(_)
OverflowsI16(flags) ==
    IF flags = << >> THEN FALSE
    ELSE \/ OverflowsI16(SubSeq(flags, 1, Len(flags) - 1))
         \/ SumFlags(flags) > 2^15 - 1

(* ---------------- kind-specific setters ---------------- *)

\* a setter that folds a list of flag enum values into an i16 bit mask;
\* overflow_checks: the build panics on overflow of `acc + item` (debug
\* profile) or wraps (release profile)
FlagSetter(b, kind, op, flags, overflow_checks) ==
    /\ IsBuilder(b)
    /\ builder[b].frequency = kind
    /\ IF HasTrigger(b)
       THEN IF OverflowsI16(flags) /\ overflow_checks
            THEN Fail(b, op, Panic, flags)
            ELSE Keep(b, builder[b].schedule, op, flags, WrapI16(SumFlags(flags)))
       ELSE Fail(b, op, trigger_uninitialised_error, flags)

Boot_delay(b, delay) == TriggerSetter(b, Boot, "delay", delay, Duration_to_string(delay))

Daily_days_interval(b, days) == TriggerSetter(b, Daily, "days_interval", days, days)
Daily_random_delay(b, delay) ==
    TriggerSetter(b, Daily, "random_delay", delay, Duration_to_string(delay))

Event_delay(b, delay) == TriggerSetter(b, Event, "delay", delay, Duration_to_string(delay))
Event_subscription(b, query) == TriggerSetter(b, Event, "subscription", query, query)
Event_value_queries(b, queries) == TriggerSetter(b, Event, "value_queries", queries, queries)

Logon_delay(b, delay) == TriggerSetter(b, Logon, "delay", delay, Duration_to_string(delay))
Logon_user_id(b, id) == TriggerSetter(b, Logon, "user_id", id, id)

\* variant: only the upper end of the range is tested
is_out_of_bounds_upper_only(days) ==
    \E i \in 1..Len(days) : days[i].tag = "Day" /\ ~(days[i].n <= 31)

\* days.iter().any(|x| Day(int) => !(1..=31).contains(int), Last => false)
is_out_of_bounds(days) ==
    \E i \in 1..Len(days) : days[i].tag = "Day" /\ ~(days[i].n >= 1 /\ days[i].n <= 31)

\* overflow_checks: the build panics on i32 overflow of `acc + day` (debug
\* profile) or wraps (release profile)
Monthly_days_of_month(b, days, overflow_checks) ==
    /\ IsBuilder(b)
    /\ builder[b].frequency = Monthly
    /\ IF HasTrigger(b)
       THEN IF is_out_of_bounds(days)
            THEN Fail(b, "days_of_month", InvalidOperationError, days)
            ELSE IF OverflowsI32(days) /\ overflow_checks
                 THEN Fail(b, "days_of_month", Panic, days)
                 ELSE Keep(b, builder[b].schedule, "days_of_month", days, AsI32(SumDays(days)))
       ELSE Fail(b, "days_of_month", trigger_uninitialised_error, days)

Monthly_months_of_year(b, months, overflow_checks) ==
    FlagSetter(b, Monthly, "months_of_year", months, overflow_checks)
Monthly_random_delay(b, delay) ==
    TriggerSetter(b, Monthly, "random_delay", delay, Duration_to_string(delay))
Monthly_run_on_last_day(b, is_run) ==
    TriggerSetter(b, Monthly, "run_on_last_day", is_run, IF is_run THEN 1 ELSE 0)

MonthlyDOW_days_of_week(b, days, overflow_checks) ==
    FlagSetter(b, MonthlyDOW, "days_of_week", days, overflow_checks)
MonthlyDOW_months_of_year(b, months, overflow_checks) ==
    FlagSetter(b, MonthlyDOW, "months_of_year", months, overflow_checks)
MonthlyDOW_random_delay(b, delay) ==
    TriggerSetter(b, MonthlyDOW, "random_delay", delay, Duration_to_string(delay))
MonthlyDOW_run_on_last_week(b, is_run) ==
    TriggerSetter(b, MonthlyDOW, "run_on_last_week", is_run, IF is_run THEN 1 ELSE 0)
MonthlyDOW_weeks_of_month(b, weeks, overflow_checks) ==
    FlagSetter(b, MonthlyDOW, "weeks_of_month", weeks, overflow_checks)

Registration_delay(b, delay) ==
    TriggerSetter(b, Registration, "delay", delay, Duration_to_string(delay))

Time_random_delay(b, delay) ==
    TriggerSetter(b, Time, "random_delay", delay, Duration_to_string(delay))

Weekly_days_of_week(b, days, overflow_checks) ==
    FlagSetter(b, Weekly, "days_of_week", days, overflow_checks)
Weekly_weeks_interval(b, weeks) == TriggerSetter(b, Weekly, "weeks_interval", weeks, weeks)
Weekly_random_delay(b, delay) ==
    TriggerSetter(b, Weekly, "random_delay", delay, Duration_to_string(delay))

(* ---------------- setters of every ScheduleBuilder<Frequency> ---------------- *)

\* variant: the action collection holds only the newest action
action_replaces(b, act) ==
    /\ IsBuilder(b)
    /\ Len(builder[b].schedule.actions) < MaxActions
    /\ Keep(b, [builder[b].schedule EXCEPT !.actions = <<act>>], "action", act, 0)

action(b, act) ==
    /\ IsBuilder(b)
    /\ Len(builder[b].schedule.actions) < MaxActions
    /\ Keep(b, [builder[b].schedule EXCEPT !.actions = Append(@, act)], "action", act, 0)

author(b, name) ==
    /\ IsBuilder(b)
    /\ Keep(b, [builder[b].schedule EXCEPT !.registration_info.author = name], "author", name, 0)

description(b, text) ==
    /\ IsBuilder(b)
    /\ Keep(b, [builder[b].schedule EXCEPT !.registration_info.description = text],
            "description", text, 0)

\* variant: the limit is accepted whether or not a trigger exists
execution_time_limit_unchecked(b, time_limit) ==
    /\ IsBuilder(b)
    /\ Keep(b, builder[b].schedule, "execution_time_limit", time_limit,
            Duration_to_string(time_limit))

execution_time_limit(b, time_limit) ==
    /\ IsBuilder(b)
    /\ IF HasTrigger(b)
       THEN Keep(b, builder[b].schedule, "execution_time_limit", time_limit,
                 Duration_to_string(time_limit))
       ELSE Fail(b, "execution_time_limit", trigger_uninitialised_error, time_limit)

start_boundary(b, start) ==
    /\ IsBuilder(b)
    /\ LET s == builder[b].schedule
       IN IF HasTrigger(b)
          THEN Keep(b, [s EXCEPT !.triggers[s.trigger].start_boundary = start,
                                 !.force_start_boundary = FALSE],
                    "start_boundary", start, start)
          ELSE Fail(b, "start_boundary", trigger_uninitialised_error, start)

end_boundary(b, end) ==
    /\ IsBuilder(b)
    /\ IF HasTrigger(b)
       THEN Keep(b, builder[b].schedule, "end_boundary", end, end)
       ELSE Fail(b, "end_boundary", trigger_uninitialised_error, end)

repetition(b, duration, interval, stop_at_duration_end) ==
    /\ IsBuilder(b)
    /\ IF HasTrigger(b)
       THEN Keep(b, builder[b].schedule, "repetition",
                 <<duration, interval, stop_at_duration_end>>,
                 <<Duration_to_string(duration), Duration_to_string(interval),
                   stop_at_duration_end>>)
       ELSE Fail(b, "repetition", trigger_uninitialised_error,
                 <<duration, interval, stop_at_duration_end>>)

\* variant: `||` in place of `&&` in the mutual-exclusion test
principal_either(b, settings) ==
    /\ IsBuilder(b)
    /\ LET s == builder[b].schedule
       IN IF settings.group_id # None \/ settings.user_id # None
          THEN Fail(b, "principal", InvalidOperationError, settings)
          ELSE Keep(b, s, "principal", settings, 0)

\* the IPrincipal of the task definition is fetched, then written field by field
principal(b, settings) ==
    /\ IsBuilder(b)
    /\ LET s == builder[b].schedule
       IN IF settings.group_id # None /\ settings.user_id # None
          THEN Fail(b, "principal", InvalidOperationError, settings)
          ELSE IF settings.group_id # None
               THEN Keep(b, [s EXCEPT !.principal.group_id = settings.group_id],
                         "principal", settings, 0)
               ELSE IF settings.user_id # None
                    THEN Keep(b, [s EXCEPT !.principal.user_id = settings.user_id],
                              "principal", settings, 0)
                    ELSE Keep(b, s, "principal", settings, 0)

\* Settings::new(), reduced to two of its Option<bool> fields
Settings_new == [enabled |-> Absent, hidden |-> Absent]

\* variant: every field is written, a None field clearing the task setting
settings_writes_every_field(b, s) ==
    /\ IsBuilder(b)
    /\ Keep(b, [builder[b].schedule EXCEPT !.settings = s], "settings", s, 0)

\* settings(self, settings): every field that is Some is written to the task settings
settings(b, s) ==
    /\ IsBuilder(b)
    /\ Keep(b, [builder[b].schedule EXCEPT
                   !.settings = [f \in DOMAIN @ |-> IF is_some(s[f]) THEN s[f] ELSE @[f]]],
            "settings", s, 0)

\* variant: build() hands out a schedule with an empty action collection
build_without_actions(b) ==
    /\ IsBuilder(b)
    /\ IF builder[b].schedule.trigger = 0
       THEN Fail(b, "build", InvalidOperationError, 0)
       ELSE IF builder[b].schedule.force_start_boundary
            THEN Fail(b, "build", RequiredPropertyError, 0)
            ELSE /\ builder' = [builder EXCEPT ![b].life = "schedule", ![b].com = None,
                                               ![b].schedule.actions = << >>]
                 /\ last' = Call(b, "build", Ok, 0, 0)
                 /\ strong' = RcDropStrong(builder[b].com)
                 /\ comState' = RcDropState(builder[b].com)
                 /\ uninits' = RcDropUninits(builder[b].com)
                 /\ UNCHANGED <<held, aux>>

\* variant: the start-boundary rule is tested before the trigger rule
build_boundary_first(b) ==
    /\ IsBuilder(b)
    /\ IF builder[b].schedule.force_start_boundary
       THEN Fail(b, "build", RequiredPropertyError, 0)
       ELSE IF builder[b].schedule.trigger = 0
            THEN Fail(b, "build", InvalidOperationError, 0)
            ELSE /\ builder' = [builder EXCEPT ![b].life = "schedule", ![b].com = None]
                 /\ last' = Call(b, "build", Ok, 0, 0)
                 /\ strong' = RcDropStrong(builder[b].com)
                 /\ comState' = RcDropState(builder[b].com)
                 /\ uninits' = RcDropUninits(builder[b].com)
                 /\ UNCHANGED <<held, aux>>

\* build(self): the schedule is moved out, the rest of self (the ComRuntime
\* clone) is dropped when the call returns
build(b) ==
    /\ IsBuilder(b)
    /\ IF builder[b].schedule.trigger = 0
       THEN Fail(b, "build", InvalidOperationError, 0)
       ELSE IF builder[b].schedule.force_start_boundary
            THEN Fail(b, "build", RequiredPropertyError, 0)
            ELSE /\ builder' = [builder EXCEPT ![b].life = "schedule", ![b].com = None]
                 /\ last' = Call(b, "build", Ok, 0, 0)
                 /\ strong' = RcDropStrong(builder[b].com)
                 /\ comState' = RcDropState(builder[b].com)
                 /\ uninits' = RcDropUninits(builder[b].com)
                 /\ UNCHANGED <<held, aux>>

\* the caller lets a builder go out of scope
ScheduleBuilder_drop(b) ==
    /\ IsBuilder(b)
    /\ Fail(b, "drop", Ok, 0)

(* ---------------- Schedule (schedule.rs) ---------------- *)

IsSchedule(b) == builder[b].life = "schedule"

\* variant: register(&self, ...), which leaves the schedule with the caller
register_by_reference(b, task_name, flags, registered) ==
    /\ IsSchedule(b)
    /\ builder' = builder
    /\ last' = Call(b, "register", IF registered THEN Ok ELSE ComError,
                    <<task_name, flags>>, flags)
    /\ UNCHANGED <<strong, comState, uninits, held, aux>>

\* register(self, task_name, flags): the schedule is moved into the call and
\* dropped when it returns, Ok(()) or the error of GetFolder or
\* RegisterTaskDefinition; `registered` is whether both succeeded
register(b, task_name, flags, registered) ==
    /\ IsSchedule(b)
    /\ builder' = [builder EXCEPT ![b].life = "registered"]
    /\ last' = Call(b, "register", IF registered THEN Ok ELSE ComError,
                    <<task_name, flags>>, flags)
    /\ UNCHANGED <<strong, comState, uninits, held, aux>>

Schedule_drop(b) ==
    /\ IsSchedule(b)
    /\ builder' = [builder EXCEPT ![b].life = "dropped"]
    /\ last' = Call(b, "drop_schedule", Ok, 0, 0)
    /\ UNCHANGED <<strong, comState, uninits, held, aux>>

(* ---------------- clones of one handle on several threads ---------------- *)

\* ComRuntime wraps Rc<Com>.  Rc keeps its strong count in a plain Cell:
\* a clone reads the count and then writes count + 1, a drop reads it and
\* then writes count - 1 and drops the Com at zero.  Rc is not Send; where
\* builders nevertheless run on several threads these reads and writes are
\* unsynchronised, so each is a step of its own.

ThreadIds == {"t1", "t2"}

\* pc: "idle", "clone" or "drop"; reg: the count the thread has read;
\* owned: builders (each holding one clone) the thread owns; com: the runtime
NoThread == [pc |-> "idle", reg |-> 0, owned |-> 0, com |-> None]

\* ScheduleBuilder::new(&com) on thread t, first half: com.clone() reads the count
Thread_clone_load(t, r) ==
    /\ threads[t].pc = "idle"
    /\ threads[t].owned < MaxThreadBuilders
    /\ strong[r] < MaxStrong
    /\ comState[r] = "live"
    /\ held[r] >= 1
    /\ threads' = [threads EXCEPT ![t].pc = "clone", ![t].reg = strong[r], ![t].com = r]
    /\ UNCHANGED <<strong, comState, uninits, held, builder, last, dur, formatted, item, encoded, path, lookup>>

\* second half: the count read, plus one, is written back
Thread_clone_store(t) ==
    /\ threads[t].pc = "clone"
    /\ strong' = [strong EXCEPT ![threads[t].com] = threads[t].reg + 1]
    /\ threads' = [threads EXCEPT ![t].pc = "idle", ![t].owned = @ + 1]
    /\ UNCHANGED <<comState, uninits, held, builder, last, dur, formatted, item, encoded, path, lookup>>

\* the builder is dropped on thread t, first half: the count is read
Thread_drop_load(t) ==
    /\ threads[t].pc = "idle"
    /\ threads[t].owned >= 1
    /\ comState[threads[t].com] = "live"
    /\ threads' = [threads EXCEPT ![t].pc = "drop", ![t].reg = strong[threads[t].com]]
    /\ UNCHANGED <<strong, comState, uninits, held, builder, last, dur, formatted, item, encoded, path, lookup>>

\* second half: the count read, minus one, is written back; at zero the Com
\* is dropped and Com::drop runs CoUninitialize
Thread_drop_store(t) ==
    LET r == threads[t].com
        zero == threads[t].reg = 1
    IN /\ threads[t].pc = "drop"
       /\ strong' = [strong EXCEPT ![r] = threads[t].reg - 1]
       /\ comState' = [comState EXCEPT ![r] = IF zero THEN "torn" ELSE @]
       /\ uninits' = [uninits EXCEPT ![r] = IF zero THEN @ + 1 ELSE @]
       /\ threads' = [threads EXCEPT ![t].pc = "idle", ![t].owned = @ - 1]
       /\ UNCHANGED <<held, builder, last, dur, formatted, item, encoded, path, lookup>>

(* ---------------- TaskScheduler::get_schedule (task_scheduler.rs) ---------------- *)

\* a path is the sequence of its characters
Backslash == "\\"
RootFolder == <<Backslash>>

NoLookup == [folder |-> << >>, name |-> << >>, com |-> None, res |-> None]

\* str::split_once: the text before and after the first `c`, Absent without one
RECURSIVE split_once(_, _)
split_once(str, c) ==
    IF str = << >>
    THEN Absent
    ELSE IF Head(str) = c
         THEN Some(<<(<< >>), Tail(str)>>)
         ELSE LET rest == split_once(Tail(str), c)
              IN IF rest = Absent
                 THEN Absent
                 ELSE Some(<<(<<Head(str)>>) \o rest[1][1], rest[1][2]>>)

\* str::rsplit_once: the text before and after the last `c`, Absent without one
RECURSIVE rsplit_once(_, _)
rsplit_once(str, c) ==
    IF str = << >>
    THEN Absent
    ELSE LET n == Len(str)
             front == SubSeq(str, 1, n - 1)
         IN IF str[n] = c
            THEN Some(<<front, (<< >>)>>)
            ELSE LET rest == rsplit_once(front, c)
                 IN IF rest = Absent
                    THEN Absent
                    ELSE Some(<<rest[1][1], rest[1][2] \o <<str[n]>> >>)

\* the `match path.rsplit_once('\\')` of get_schedule: <<folder, name>>
FolderAndName(p) ==
    LET x == rsplit_once(p, Backslash)
    IN IF is_some(x)
       THEN IF x[1][1] = << >> THEN <<RootFolder, x[1][2]>> ELSE x[1]
       ELSE <<RootFolder, p>>

\* get_schedule(&self, path): the runtime handle of the TaskScheduler is
\* cloned for the Schedule<Registered> that is returned, and the task is
\* fetched with GetFolder(folder).unwrap() and GetTask(name).unwrap(); `found`
\* is whether both return Ok.  Otherwise unwrap panics and the clone is
\* dropped as the stack unwinds.
get_schedule(r, found) ==
    /\ lookup = NoLookup
    /\ held[r] >= 1
    /\ strong' = [strong EXCEPT ![r] = IF found THEN @ + 1 ELSE @]
    /\ lookup' = [folder |-> FolderAndName(path)[1], name |-> FolderAndName(path)[2],
                  com |-> IF found THEN r ELSE None,
                  res |-> IF found THEN Ok ELSE Panic]
    /\ UNCHANGED <<comState, uninits, held, builder, last, threads, dur, formatted,
                   item, encoded, path>>

\* the Schedule<Registered> goes out of scope
Registered_drop(r) ==
    /\ lookup # NoLookup
    /\ lookup.com = r
    /\ lookup' = [lookup EXCEPT !.com = None]
    /\ strong' = RcDropStrong(r)
    /\ comState' = RcDropState(r)
    /\ uninits' = RcDropUninits(r)
    /\ UNCHANGED <<held, builder, last, threads, dur, formatted, item, encoded, path>>

(* ---------------- inputs ---------------- *)

TriggerIds == {"MyTrigger"}
Enabled == {TRUE}
Durations == {Duration_new, [Duration_new EXCEPT !.seconds = Some(5), !.days = Some(2)]}
Intervals == {1}
Texts == {"text"}
Flags == {<< >>, <<1>>, <<1, 8>>, <<1, 1>>}
DayLists ==
    {<<Day(1), Day(15), Day(31)>>, <<Day(1), Last>>, <<Last, Last>>, <<Day(0)>>,
     <<Day(32), Day(1)>>, <<Day(1), Day(1)>>}
Starts == {"2007-01-01T08:00:00"}
Actions == {"notepad.exe"}
Principals ==
    { PrincipalSettings(g, u) : g \in {None, "Group"}, u \in {None, "MyServiceAccount"} }
CreationFlags == {6}

\* outcomes of CoInitializeEx
Initialized == BOOLEAN

\* outcomes of CoCreateInstance, Connect and NewTask in ScheduleBuilder::new
Created == BOOLEAN

\* outcomes of GetFolder and RegisterTaskDefinition in register()
Registered == BOOLEAN

\* no ComRuntime::new() call made yet for the runtimes `ids`, no builder
InitHandles(ids) ==
    /\ strong = [r \in ids |-> 0]
    /\ comState = [r \in ids |-> "unused"]
    /\ uninits = [r \in ids |-> 0]
    /\ held = [r \in ids |-> 0]
    /\ builder = [b \in BuilderIds |-> NoBuilder]
    /\ last = NoCall

InitThreads == threads = [t \in ThreadIds |-> NoThread]

\* no path handed to get_schedule
InitLookup ==
    /\ path = << >>
    /\ lookup = NoLookup

InitDuration ==
    /\ dur = Duration_new
    /\ formatted = NotFormatted

\* no list handed to an encoding
InitEncoding ==
    /\ item = NoItem
    /\ encoded = NotEncoded

Init ==
    /\ InitHandles(RuntimeIds)
    /\ InitThreads
    /\ InitLookup
    /\ InitDuration
    /\ InitEncoding

Handles ==
    \/ \E r \in RuntimeIds : \E i \in Initialized : ComRuntime_new(r, i)
    \/ \E r \in RuntimeIds : ComRuntime_clone(r)
    \/ \E r \in RuntimeIds : ComRuntime_drop(r)

Creates(b) ==
    \/ create_boot(b)
    \/ create_daily(b)
    \/ create_event(b)
    \/ create_idle(b)
    \/ create_logon(b)
    \/ create_monthly(b)
    \/ create_monthly_dow(b)
    \/ create_registration(b)
    \/ create_time(b)
    \/ create_weekly(b)

Triggers(b) ==
    \E id \in TriggerIds, enabled \in Enabled :
        \/ Boot_trigger(b, id, enabled)
        \/ Daily_trigger(b, id, enabled)
        \/ Event_trigger(b, id, enabled)
        \/ Idle_trigger(b, id, enabled)
        \/ Logon_trigger(b, id, enabled)
        \/ Monthly_trigger(b, id, enabled)
        \/ MonthlyDOW_trigger(b, id, enabled)
        \/ Registration_trigger(b, id, enabled)
        \/ Time_trigger(b, id, enabled)
        \/ Weekly_trigger(b, id, enabled)

KindSetters(b) ==
    \/ \E d \in Durations : Boot_delay(b, d)
    \/ \E n \in Intervals : Daily_days_interval(b, n)
    \/ \E d \in Durations : Daily_random_delay(b, d)
    \/ \E d \in Durations : Event_delay(b, d)
    \/ \E q \in Texts : Event_subscription(b, q)
    \/ \E q \in Texts : Event_value_queries(b, <<q>>)
    \/ \E d \in Durations : Logon_delay(b, d)
    \/ \E u \in Texts : Logon_user_id(b, u)
    \/ \E days \in DayLists, oc \in BOOLEAN : Monthly_days_of_month(b, days, oc)
    \/ \E f \in Flags, oc \in BOOLEAN : Monthly_months_of_year(b, f, oc)
    \/ \E d \in Durations : Monthly_random_delay(b, d)
    \/ \E r \in BOOLEAN : Monthly_run_on_last_day(b, r)
    \/ \E f \in Flags, oc \in BOOLEAN : MonthlyDOW_days_of_week(b, f, oc)
    \/ \E f \in Flags, oc \in BOOLEAN : MonthlyDOW_months_of_year(b, f, oc)
    \/ \E d \in Durations : MonthlyDOW_random_delay(b, d)
    \/ \E r \in BOOLEAN : MonthlyDOW_run_on_last_week(b, r)
    \/ \E f \in Flags, oc \in BOOLEAN : MonthlyDOW_weeks_of_month(b, f, oc)
    \/ \E d \in Durations : Registration_delay(b, d)
    \/ \E d \in Durations : Time_random_delay(b, d)
    \/ \E f \in Flags, oc \in BOOLEAN : Weekly_days_of_week(b, f, oc)
    \/ \E n \in Intervals : Weekly_weeks_interval(b, n)
    \/ \E d \in Durations : Weekly_random_delay(b, d)

CommonSetters(b) ==
    \/ \E a \in Actions : action(b, a)
    \/ \E t \in Texts : author(b, t)
    \/ \E t \in Texts : description(b, t)
    \/ \E d \in Durations : execution_time_limit(b, d)
    \/ \E t \in Starts : start_boundary(b, t)
    \/ \E t \in Starts : end_boundary(b, t)
    \/ \E d \in Durations : repetition(b, d, d, TRUE)
    \/ \E p \in Principals : principal(b, p)

Lifecycle(b) ==
    \/ \E r \in RuntimeIds, ok \in Created : ScheduleBuilder_new(b, r, ok)
    \/ build(b)
    \/ ScheduleBuilder_drop(b)
    \/ \E f \in CreationFlags, ok \in Registered : register(b, "TaskName", f, ok)
    \/ Schedule_drop(b)

Next ==
    \/ Handles
    \/ \E b \in BuilderIds :
        \/ Lifecycle(b)
        \/ Creates(b)
        \/ Triggers(b)
        \/ KindSetters(b)
        \/ CommonSetters(b)

Spec == Init /\ [][Next]_vars

(* ======================= properties ======================= *)

\* a step that is the call `op` on builder or schedule b: builder calls never
\* touch the caller's handles, handle operations always do
BuilderStep(b, op) ==
    /\ held' = held
    /\ <<builder, last>>' # <<builder, last>>
    /\ last'.b = b
    /\ last'.op = op

\* trigger() has succeeded on b at least once: its trigger collection is not empty
TriggerSucceeded(b) == Len(builder[b].schedule.triggers) > 0

\* start_boundary() has succeeded on b at least once: some trigger of the
\* collection carries a start boundary
StartBoundarySucceeded(b) ==
    \E i \in 1..Len(builder[b].schedule.triggers) :
        builder[b].schedule.triggers[i].start_boundary # None

StartBoundaryKinds == {Daily, Time, MonthlyDOW, Monthly, Event}

KindSetterOps ==
    {"days_interval", "random_delay", "delay", "subscription", "value_queries",
     "user_id", "days_of_month", "months_of_year", "run_on_last_day", "days_of_week",
     "weeks_of_month", "run_on_last_week", "weeks_interval"}

FlagListOps == {"months_of_year", "days_of_week", "weeks_of_month"}

\* C1: on a Daily, Time, MonthlyDOW, Monthly or Event builder with a trigger,
\* build() fails with RequiredProperty exactly when no start_boundary() call has
\* succeeded, and returns a Schedule once one has.
C1_BuildNeedsStartBoundary ==
    [][\A b \in BuilderIds :
        (/\ BuilderStep(b, "build")
         /\ builder[b].frequency \in StartBoundaryKinds
         /\ TriggerSucceeded(b))
        => /\ (last'.res = RequiredPropertyError) <=> ~StartBoundarySucceeded(b)
           /\ StartBoundarySucceeded(b) =>
                (last'.res = Ok /\ builder'[b].life = "schedule")]_vars

\* C2: build() on a builder whose trigger() never succeeded fails with
\* InvalidOperation, whatever the start-boundary obligation.
C2_NoTriggerIsInvalidOperation ==
    [][\A b \in BuilderIds :
        (BuilderStep(b, "build") /\ ~TriggerSucceeded(b))
        => (last'.res = InvalidOperationError /\ builder'[b].life = "dropped")]_vars

\* a build() that failed with InvalidOperation on a builder of a kind whose
\* create_<kind>() left the start-boundary obligation outstanding
C2_Witness ==
    \E b \in BuilderIds :
        /\ last = Call(b, "build", InvalidOperationError, 0, 0)
        /\ builder[b].frequency \in {Daily, Time, MonthlyDOW, Event}
        /\ builder[b].life = "dropped"

C4_OneTriggerPerSchedule ==
    \A b \in BuilderIds :
        /\ Len(builder[b].schedule.triggers) <= 1
        /\ IsSchedule(b) => Len(builder[b].schedule.triggers) = 1

\* C5: trigger() on a builder whose trigger() already succeeded fails and
\* creates no further trigger.
C5_SecondTriggerFails ==
    [][\A b \in BuilderIds :
        (BuilderStep(b, "trigger") /\ TriggerSucceeded(b))
        => /\ last'.res # Ok
           /\ Len(builder'[b].schedule.triggers) <= Len(builder[b].schedule.triggers)]_vars

\* C6: once start_boundary() has succeeded, no build() fails with RequiredProperty.
C6_StartBoundaryClearsForGood ==
    [][\A b \in BuilderIds :
        (BuilderStep(b, "build") /\ StartBoundarySucceeded(b))
        => last'.res # RequiredPropertyError]_vars

\* C7: create_<kind>() leaves force_start_boundary set exactly for Daily, Time,
\* MonthlyDOW, Monthly and Event, and changes nothing else of the schedule.
C7_CreateSetsObligation ==
    [][\A b \in BuilderIds :
        (/\ IsBuilder(b)
         /\ builder[b].frequency = Base
         /\ builder'[b].frequency \in Kinds)
        => /\ builder'[b].schedule.force_start_boundary
                = (builder'[b].frequency \in StartBoundaryKinds)
           /\ [builder'[b].schedule EXCEPT !.force_start_boundary = FALSE]
                = builder[b].schedule]_vars

\* C8: principal(settings) fails with InvalidOperation exactly when group_id
\* and user_id are both Some, and succeeds otherwise.
C8_PrincipalMutuallyExclusive ==
    [][\A b \in BuilderIds :
        BuilderStep(b, "principal")
        => LET both == last'.input.group_id # None /\ last'.input.user_id # None
           IN /\ both => (last'.res = InvalidOperationError /\ ~IsBuilder(b)')
              /\ ~both => (last'.res = Ok /\ IsBuilder(b)')]_vars

\* a principal() call with both identifiers that failed
C8_Witness ==
    \E b \in BuilderIds :
        /\ last.b = b
        /\ last.op = "principal"
        /\ last.input = PrincipalSettings("Group", "MyServiceAccount")
        /\ last.res = InvalidOperationError
        /\ builder[b].life = "dropped"

\* the ComRuntime values of runtime r that are alive: the caller's and the
\* builders' clones
LiveHandles(r) == held[r] + Cardinality({b \in BuilderIds : builder[b].com = r})

\* C9: the teardown of a runtime has run once when the last of its handles
\* has been dropped, and not at all while a handle is alive.
C9_TeardownOnceAtLastDrop ==
    \A r \in RuntimeIds :
        /\ strong[r] = LiveHandles(r)
        /\ uninits[r] = IF comState[r] \in {"live", "torn"} /\ LiveHandles(r) = 0
                        THEN 1 ELSE 0
        /\ (comState[r] = "torn") <=> (uninits[r] = 1)

\* a runtime torn down after the caller's handles and a builder's clone were dropped
C9_Witness ==
    \E r \in RuntimeIds, b \in BuilderIds :
        /\ uninits[r] = 1
        /\ builder[b].origin = r
        /\ builder[b].life = "dropped"
        /\ last.op \in {"drop", "build"}

\* C10: while a builder, or the Schedule built from it, is alive, the runtime
\* it was constructed with is not torn down.
C10_RuntimeOutlivesSchedule ==
    \A b \in BuilderIds :
        (IsBuilder(b) \/ IsSchedule(b)) => comState[builder[b].origin] # "torn"

(* ======================= several acquisitions ======================= *)

\* the ComRuntime::new() calls of one process, each Ok value a runtime of its own
Acquisitions == {"com", "com2"}

InitAcquire ==
    /\ InitHandles(Acquisitions)
    /\ InitThreads
    /\ InitLookup
    /\ InitDuration
    /\ InitEncoding

NextAcquire ==
    \/ \E r \in Acquisitions : \E i \in Initialized : ComRuntime_new(r, i)
    \/ \E r \in Acquisitions : ComRuntime_clone(r)
    \/ \E r \in Acquisitions : ComRuntime_drop(r)
    \/ \E b \in BuilderIds :
        \/ \E r \in Acquisitions, ok \in Created : ScheduleBuilder_new(b, r, ok)
        \/ create_boot(b)
        \/ \E id \in TriggerIds, enabled \in Enabled : Boot_trigger(b, id, enabled)
        \/ build(b)
        \/ ScheduleBuilder_drop(b)
        \/ \E f \in CreationFlags, ok \in Registered : register(b, "TaskName", f, ok)
        \/ Schedule_drop(b)

SpecAcquire == InitAcquire /\ [][NextAcquire]_vars

\* the runtimes whose CoInitializeEx call has not been balanced by CoUninitialize
LiveInitializations == {r \in DOMAIN comState : comState[r] = "live"}

\* C11: over any sequence of acquisitions and drops at most one
\* initialization is live; a ComRuntime::new() made while a handle is alive
\* shares the existing one.
C11_OneLiveInitialization == Cardinality(LiveInitializations) <= 1

\* C12: once ComRuntime::new() has failed in the subsystem initialization,
\* that acquisition has no handle and no builder clone, and its teardown has
\* not run, from then on.
C12_FailedInitLeavesNothing ==
    \A r \in Acquisitions :
        [](comState[r] = "failed" =>
              [](/\ comState[r] = "failed"
                 /\ strong[r] = 0
                 /\ held[r] = 0
                 /\ uninits[r] = 0
                 /\ \A b \in BuilderIds : builder[b].com # r /\ builder[b].origin # r))

\* one acquisition has failed, and another one has since been made, used by a
\* builder and torn down
C12_Witness ==
    \E r, q \in Acquisitions :
        /\ comState[r] = "failed"
        /\ comState[q] = "torn"
        /\ \E b \in BuilderIds : builder[b].origin = q

(* ======================= builders on several threads ======================= *)

NextThreads ==
    \/ \E r \in RuntimeIds : \E i \in Initialized : ComRuntime_new(r, i)
    \/ \E t \in ThreadIds :
        \/ \E r \in RuntimeIds : Thread_clone_load(t, r)
        \/ Thread_clone_store(t)
        \/ Thread_drop_load(t)
        \/ Thread_drop_store(t)

SpecThreads == Init /\ [][NextThreads]_vars

\* the clones of runtime r that the builders of the threads in ts hold
RECURSIVE ThreadClones(_, _)
ThreadClones(ts, r) ==
    IF ts = {} THEN 0
    ELSE LET t == CHOOSE x \in ts : TRUE
         IN (IF threads[t].com = r THEN threads[t].owned ELSE 0)
            + ThreadClones(ts \ {t}, r)

RECURSIVE BitOr(_, _)
BitOr(x, y) ==
    IF x = 0 THEN y
    ELSE IF y = 0 THEN x
    ELSE (IF x % 2 = 1 \/ y % 2 = 1 THEN 1 ELSE 0) + 2 * BitOr(x \div 2, y \div 2)

\* bitwise OR of the flags of a list, zero for the empty list
RECURSIVE OrFlags(_)
OrFlags(flags) == IF flags = << >> THEN 0 ELSE BitOr(Head(flags), OrFlags(Tail(flags)))

\* C19: the integer that days_of_week, months_of_year or weeks_of_month passes
\* to the trigger is the bitwise OR of the flags of the listed values, zero
\* for the empty list.
C19_EncodingIsBitwiseOr ==
    [][\A b \in BuilderIds, op \in FlagListOps :
          (BuilderStep(b, op) /\ last'.res = Ok) => last'.arg = OrFlags(last'.input)]_vars

\* C20: the integer passed for a list is the integer the setter would pass
\* for the list with any of its values added once more.
C20_DuplicatesAreIdempotent ==
    [][\A b \in BuilderIds, op \in FlagListOps :
          (BuilderStep(b, op) /\ last'.res = Ok) =>
              \A i \in 1..Len(last'.input) :
                  WrapI16(SumFlags(Append(last'.input, last'.input[i]))) = last'.arg]_vars

(* ======================= Duration formatting ======================= *)

DurationFields == {"years", "months", "days", "hours", "minutes", "seconds"}

\* Option<usize> values of a field
FieldValues == {Absent} \cup {Some(n) : n \in 0..MaxField}

\* tests::duration_all_set
duration_all_set ==
    [years |-> Some(1), months |-> Some(2), days |-> Some(3),
     hours |-> Some(4), minutes |-> Some(5), seconds |-> Some(6)]

\* tests::duration_time_only
duration_time_only ==
    [Duration_new EXCEPT !.hours = Some(1), !.minutes = Some(2), !.seconds = Some(3)]

\* examples/time_task.rs: the random delay
time_task_delay == [Duration_new EXCEPT !.seconds = Some(5), !.days = Some(2)]

DurationInputs ==
    [years : FieldValues, months : FieldValues, days : FieldValues,
     hours : FieldValues, minutes : FieldValues, seconds : FieldValues]
    \cup {duration_all_set, duration_time_only, time_task_delay}

\* variant: a Duration without any field writes nothing, not even the marker
Duration_fmt_empty_when_unset ==
    /\ formatted = NotFormatted
    /\ formatted' = IF dur = Duration_new THEN "" ELSE Duration_to_string(dur)
    /\ UNCHANGED <<strong, comState, uninits, held, builder, last, threads, dur, item, encoded, path, lookup>>

\* dur.to_string(): Display::fmt writes the string
Duration_fmt ==
    /\ formatted = NotFormatted
    /\ formatted' = Duration_to_string(dur)
    /\ UNCHANGED <<strong, comState, uninits, held, builder, last, threads, dur, item, encoded, path, lookup>>

InitFormat ==
    /\ InitHandles(RuntimeIds)
    /\ InitThreads
    /\ InitLookup
    /\ dur \in DurationInputs
    /\ formatted = NotFormatted
    /\ InitEncoding

NextFormat == Duration_fmt

SpecFormat == InitFormat /\ [][NextFormat]_vars

IsPositive(o) == o # Absent /\ o[1] > 0

\* what a field that is Some(n), n > 0, contributes: n followed by its letter
FieldText(o, code) == IF IsPositive(o) THEN ToString(o[1]) \o code ELSE ""

DateText(d) ==
    FieldText(d.years, "Y") \o FieldText(d.months, "M") \o FieldText(d.days, "D")

TimeText(d) ==
    FieldText(d.hours, "H") \o FieldText(d.minutes, "M") \o FieldText(d.seconds, "S")

\* C14: a formatted Duration whose six fields are all positive reads
\* P<years>Y<months>M<days>DT<hours>H<minutes>M<seconds>S; 1,2,3,4,5,6 gives
\* "P1Y2M3DT4H5M6S" and hours 1, minutes 2, seconds 3 alone "PT1H2M3S".
C14_FixedFieldOrder ==
    formatted # NotFormatted =>
        /\ (\A f \in DurationFields : IsPositive(dur[f])) =>
               formatted = "P" \o ToString(dur.years[1]) \o "Y"
                               \o ToString(dur.months[1]) \o "M"
                               \o ToString(dur.days[1]) \o "D" \o "T"
                               \o ToString(dur.hours[1]) \o "H"
                               \o ToString(dur.minutes[1]) \o "M"
                               \o ToString(dur.seconds[1]) \o "S"
        /\ dur = duration_all_set => formatted = "P1Y2M3DT4H5M6S"
        /\ dur = duration_time_only => formatted = "PT1H2M3S"

\* the all-set Duration of the test has been formatted
C14_Witness ==
    /\ dur = duration_all_set
    /\ formatted = "P1Y2M3DT4H5M6S"

\* C15: every positive field of a formatted Duration appears as its number
\* and letter; when a time field is positive the separator T stands before
\* the time fields, seconds alone included.
C15_TimeSectionWhenPresent ==
    formatted # NotFormatted =>
        IF \E f \in {"hours", "minutes", "seconds"} : IsPositive(dur[f])
        THEN formatted = "P" \o DateText(dur) \o "T" \o TimeText(dur)
        ELSE formatted \in {"P" \o DateText(dur), "P" \o DateText(dur) \o "T"}

\* d with every Some(0) field replaced by None
ZeroAsNone(d) == [f \in DurationFields |-> IF d[f] = Some(0) THEN Absent ELSE d[f]]

\* C16: a formatted Duration reads the same as the Duration with each
\* Some(0) field replaced by None.
C16_ZeroFieldIsAbsent ==
    formatted # NotFormatted => formatted = Duration_to_string(ZeroAsNone(dur))

\* C17: a Duration with all six fields absent formats to exactly "P".
C17_AllAbsentIsMarker ==
    (formatted # NotFormatted /\ \A f \in DurationFields : dur[f] = Absent) =>
        formatted = "P"

\* the Duration without fields has been formatted
C17_Witness ==
    /\ \A f \in DurationFields : dur[f] = Absent
    /\ formatted = "P"

OnlyZeroYears(d) ==
    /\ d.years = Some(0)
    /\ \A f \in DurationFields \ {"years"} : d[f] = Absent

DayOfWeek ==
    [Sunday |-> 2 ^ 0, Monday |-> 2 ^ 1, Tuesday |-> 2 ^ 2, Wednesday |-> 2 ^ 3,
     Thursday |-> 2 ^ 4, Friday |-> 2 ^ 5, Saturday |-> 2 ^ 6]

Month ==
    [January |-> 2 ^ 0, February |-> 2 ^ 1, March |-> 2 ^ 2, April |-> 2 ^ 3,
     May |-> 2 ^ 4, June |-> 2 ^ 5, July |-> 2 ^ 6, August |-> 2 ^ 7,
     September |-> 2 ^ 8, October |-> 2 ^ 9, November |-> 2 ^ 10, December |-> 2 ^ 11]

WeekOfMonth == [First |-> 2 ^ 0, Second |-> 2 ^ 1, Third |-> 2 ^ 2, Fourth |-> 2 ^ 3]

TaskCreationFlags ==
    [Create |-> 2, CreateOrUpdate |-> 6, Disable |-> 8, DontAddPrincipalAce |-> 10,
     IgnoreRegistrationTriggers |-> 20, Update |-> 4, ValidateOnly |-> 1]

\* the enums that a setter folds into an i16
I16Enums == [DayOfWeek |-> DayOfWeek, Month |-> Month, WeekOfMonth |-> WeekOfMonth]

\* variant: the cast keeps eight bits
as_i16_eight_bits(enum, list) == [i \in 1..Len(list) |-> I16Enums[enum][list[i]] % 2 ^ 8]

\* `item as i16` for every item of the list
as_i16(enum, list) == [i \in 1..Len(list) |-> I16Enums[enum][list[i]]]

\* an i16 sign-extended to a 32-bit pattern
I16Pattern(x) == IF x >= 0 THEN <<0, x>> ELSE <<Half - 1, x + Half>>

\* bitwise AND of two naturals
RECURSIVE BitAnd(_, _)
BitAnd(x, y) ==
    IF x = 0 \/ y = 0 THEN 0
    ELSE (IF x % 2 = 1 /\ y % 2 = 1 THEN 1 ELSE 0) + 2 * BitAnd(x \div 2, y \div 2)

And32(p, q) == <<BitAnd(p[1], q[1]), BitAnd(p[2], q[2])>>
Or32(p, q) == <<BitOr(p[1], q[1]), BitOr(p[2], q[2])>>

\* a | b | ... of the i32 values of a list of TaskCreationFlags
RECURSIVE OrCreationFlags(_)
OrCreationFlags(list) ==
    IF list = << >> THEN <<0, 0>>
    ELSE Or32(OrCreationFlags(Tail(list)), <<0, TaskCreationFlags[Head(list)]>>)

\* the fold of days_of_week, months_of_year, weeks_of_month applied to `item`
Encode_flag_list ==
    /\ encoded = NotEncoded
    /\ item.enum \in DOMAIN I16Enums
    /\ LET values == as_i16(item.enum, item.list)
       IN encoded' = [each |-> [i \in 1..Len(values) |-> I16Pattern(values[i])],
                      res |-> Ok,
                      mask |-> I16Pattern(WrapI16(SumFlags(values)))]
    /\ UNCHANGED <<strong, comState, uninits, held, builder, last, threads, dur, formatted, item, path, lookup>>

\* the bounds test and the fold of days_of_month applied to `item`;
\* overflow_checks as in Monthly_days_of_month
Encode_days(overflow_checks) ==
    /\ encoded = NotEncoded
    /\ item.enum = "DayOfMonth"
    /\ LET each == [i \in 1..Len(item.list) |-> DayOfMonth_into_i32(item.list[i])]
       IN encoded' =
            IF is_out_of_bounds(item.list)
            THEN [each |-> << >>, res |-> InvalidOperationError, mask |-> <<0, 0>>]
            ELSE IF OverflowsI32(item.list) /\ overflow_checks
                 THEN [each |-> each, res |-> Panic, mask |-> <<0, 0>>]
                 ELSE [each |-> each, res |-> Ok, mask |-> SumDays(item.list)]
    /\ UNCHANGED <<strong, comState, uninits, held, builder, last, threads, dur, formatted, item, path, lookup>>

\* the caller of register() combines creation flags: A as i32 | B as i32 | ...
Combine_creation_flags ==
    /\ encoded = NotEncoded
    /\ item.enum = "TaskCreationFlags"
    /\ encoded' = [each |-> [i \in 1..Len(item.list) |->
                                <<0, TaskCreationFlags[item.list[i]]>>],
                   res |-> Ok,
                   mask |-> OrCreationFlags(item.list)]
    /\ UNCHANGED <<strong, comState, uninits, held, builder, last, threads, dur, formatted, item, path, lookup>>

\* lists of at most MaxListLen values of the set S
ListsOf(S) == UNION {[1..n -> S] : n \in 0..MaxListLen}

\* Day(0) and Day(32), Day(33) are the values next to the valid range
DayOfMonthValues == {Day(n) : n \in 0..33} \cup {Last}

\* every variant of an enum, once
EveryDayOfWeek ==
    <<"Sunday", "Monday", "Tuesday", "Wednesday", "Thursday", "Friday", "Saturday">>
EveryMonth ==
    <<"January", "February", "March", "April", "May", "June", "July", "August",
      "September", "October", "November", "December">>
EveryWeekOfMonth == <<"First", "Second", "Third", "Fourth">>
EveryDayOfMonth == [i \in 1..32 |-> IF i <= 31 THEN Day(i) ELSE Last]

EncodeInputs ==
    {[enum |-> "DayOfMonth", list |-> EveryDayOfMonth],
     [enum |-> "DayOfWeek", list |-> EveryDayOfWeek],
     [enum |-> "Month", list |-> EveryMonth],
     [enum |-> "WeekOfMonth", list |-> EveryWeekOfMonth]}
    \cup
    {[enum |-> "DayOfMonth", list |-> l] : l \in ListsOf(DayOfMonthValues)}
    \cup {[enum |-> "DayOfWeek", list |-> l] : l \in ListsOf(DOMAIN DayOfWeek)}
    \cup {[enum |-> "Month", list |-> l] : l \in ListsOf(DOMAIN Month)}
    \cup {[enum |-> "WeekOfMonth", list |-> l] : l \in ListsOf(DOMAIN WeekOfMonth)}
    \cup {[enum |-> "TaskCreationFlags", list |-> l] : l \in ListsOf(DOMAIN TaskCreationFlags)}

InitEncode ==
    /\ InitHandles(RuntimeIds)
    /\ InitThreads
    /\ InitLookup
    /\ InitDuration
    /\ item \in EncodeInputs
    /\ encoded = NotEncoded

NextEncode ==
    \/ Encode_flag_list
    \/ \E oc \in BOOLEAN : Encode_days(oc)
    \/ Combine_creation_flags

SpecEncode == InitEncode /\ [][NextEncode]_vars

\* the list has been encoded
Encoded(enum) == item.enum = enum /\ encoded # NotEncoded

\* C21: for n in 1..=31 the encoding of Day(n) is the 32-bit integer with
\* exactly bit n-1 set; Day(1) encodes to 1 and Day(31) to 2^30.
C21_DayEncodesToItsBit ==
    Encoded("DayOfMonth") =>
        \A i \in 1..Len(encoded.each) :
            LET day == item.list[i]
            IN (day.tag = "Day" /\ day.n \in 1..31) =>
                  /\ AsI32(encoded.each[i]) = 2 ^ (day.n - 1)
                  /\ day.n = 1 => encoded.each[i] = <<0, 1>>
                  /\ day.n = 31 => AsI32(encoded.each[i]) = 1073741824

\* Day(1) and Day(31) have been encoded
C21_Witness ==
    /\ Encoded("DayOfMonth")
    /\ item.list = <<Day(1), Day(31)>>
    /\ encoded.each = <<(<<0, 1>>), (<<16384, 0>>)>>

\* C23: the encoding of Last is bit 31 alone, and its bitwise AND with the
\* encoding of Day(n) is zero for every n in 1..=31.
C23_LastIsDisjointSentinel ==
    Encoded("DayOfMonth") =>
        \A i \in 1..Len(encoded.each) :
            item.list[i] = Last =>
                /\ encoded.each[i] = <<32768, 0>>
                /\ \A j \in 1..Len(encoded.each) :
                      (item.list[j].tag = "Day" /\ item.list[j].n \in 1..31) =>
                          And32(encoded.each[i], encoded.each[j]) = <<0, 0>>

\* Last has been encoded next to Day(31)
C23_Witness ==
    /\ Encoded("DayOfMonth")
    /\ item.list = <<Last, Day(31)>>
    /\ encoded.res = Ok

(* ---------------- days_of_month ---------------- *)

\* the error kind the specification names for a calendar value outside its domain
OutOfRangeError == "OutOfRange"

\* the list holds a Day(n) with n outside 1..=31
HasOutOfRangeDay(days) ==
    \E i \in 1..Len(days) : days[i].tag = "Day" /\ days[i].n \notin 1..31

RECURSIVE OrDays(_)
OrDays(days) ==
    IF days = << >> THEN <<0, 0>>
    ELSE Or32(DayOfMonth_into_i32(Head(days)), OrDays(Tail(days)))

\* C24: called after trigger() with a list whose Day(n) are all in 1..=31,
\* days_of_month succeeds and passes the bitwise OR of the entries'
\* encodings to the trigger.
C24_DaysAreOred ==
    [][\A b \in BuilderIds :
          (/\ BuilderStep(b, "days_of_month")
           /\ TriggerSucceeded(b)
           /\ ~HasOutOfRangeDay(last'.input)) =>
              (last'.res = Ok /\ last'.arg = AsI32(OrDays(last'.input)))]_vars

(* ---------------- decoding ---------------- *)

NoDuplicates(list) ==
    \A i, j \in 1..Len(list) : i # j => list[i] # list[j]

Members(list) == {list[i] : i \in 1..Len(list)}

\* the variants of an i16 enum whose flag is set in the mask
DecodeFlags(enum, mask) ==
    {v \in DOMAIN I16Enums[enum] : And32(mask, <<0, I16Enums[enum][v]>>) # <<0, 0>>}

\* the days whose bit is set in the mask: bit n-1 for Day(n), bit 31 for Last
DecodeDays(mask) ==
    {Day(n) : n \in {k \in 1..31 : And32(mask, Bit32(k - 1)) # <<0, 0>>}}
    \cup (IF And32(mask, Bit32(31)) # <<0, 0>> THEN {Last} ELSE {})

\* C25: a list of DayOfWeek, Month, WeekOfMonth or in-range DayOfMonth values
\* without a repeated member is encoded to a mask that decodes to exactly the
\* members of the list.
C25_DecodeGivesBackTheSet ==
    /\ (item.enum \in DOMAIN I16Enums /\ encoded # NotEncoded /\ NoDuplicates(item.list)) =>
          (encoded.res = Ok /\ DecodeFlags(item.enum, encoded.mask) = Members(item.list))
    /\ (/\ Encoded("DayOfMonth")
        /\ NoDuplicates(item.list)
        /\ ~HasOutOfRangeDay(item.list)) =>
          (encoded.res = Ok /\ DecodeDays(encoded.mask) = Members(item.list))

\* January and December have been encoded to bits 0 and 11
C25_Witness ==
    /\ item = [enum |-> "Month", list |-> <<"January", "December">>]
    /\ encoded.res = Ok
    /\ encoded.mask = <<0, 2049>>

(* ---------------- creation flags ---------------- *)

\* the flags that select one thing each; CreateOrUpdate is a combination
SingleCreationFlags ==
    {"Create", "Update", "Disable", "ValidateOnly", "DontAddPrincipalAce",
     "IgnoreRegistrationTriggers"}

\* C26: the values of two different single creation flags have no bit in
\* common, the flags whose bits are all set in an OR-combination of single
\* flags are exactly the combined ones, and Create | Update is CreateOrUpdate.
C26_CreationFlagsSelectable ==
    Encoded("TaskCreationFlags") =>
        /\ \A i, j \in 1..Len(item.list) :
              (item.list[i] # item.list[j] /\ {item.list[i], item.list[j]} \subseteq SingleCreationFlags)
                  => And32(encoded.each[i], encoded.each[j]) = <<0, 0>>
        /\ Members(item.list) \subseteq SingleCreationFlags =>
              {f \in SingleCreationFlags :
                  And32(encoded.mask, <<0, TaskCreationFlags[f]>>) = <<0, TaskCreationFlags[f]>>}
              = Members(item.list)
        /\ item.list = <<"Create", "Update">> =>
              encoded.mask = <<0, TaskCreationFlags.CreateOrUpdate>>

(* ======================= trigger ids ======================= *)

\* ids handed to trigger(), the empty string among them
TriggerIdInputs == {"MyTrigger", ""}

TriggerCalls(b, id, enabled) ==
    \/ Boot_trigger(b, id, enabled)
    \/ Daily_trigger(b, id, enabled)
    \/ Event_trigger(b, id, enabled)
    \/ Idle_trigger(b, id, enabled)
    \/ Logon_trigger(b, id, enabled)
    \/ Monthly_trigger(b, id, enabled)
    \/ MonthlyDOW_trigger(b, id, enabled)
    \/ Registration_trigger(b, id, enabled)
    \/ Time_trigger(b, id, enabled)
    \/ Weekly_trigger(b, id, enabled)

NextTrigger ==
    \/ Handles
    \/ \E b \in BuilderIds :
        \/ Lifecycle(b)
        \/ Creates(b)
        \/ \E id \in TriggerIdInputs, enabled \in BOOLEAN : TriggerCalls(b, id, enabled)
        \/ \E start \in Starts : start_boundary(b, start)

SpecTrigger == Init /\ [][NextTrigger]_vars

\* C27: trigger() called with the empty string as id fails and leaves no
\* trigger with that id in the collection.
C27_EmptyIdFails ==
    [][\A b \in BuilderIds :
          (BuilderStep(b, "trigger") /\ last'.input[1] = "") =>
              /\ last'.res # Ok
              /\ \A i \in 1..Len(builder'[b].schedule.triggers) :
                    builder'[b].schedule.triggers[i].id # ""]_vars

(* ---------------- start boundary and build ---------------- *)

\* calendar and time triggers
CalendarAndTimeKinds == {Daily, Weekly, Monthly, MonthlyDOW, Time}

\* C28: on a Daily, Weekly, Monthly, MonthlyDOW or Time builder build()
\* returns a Schedule only if start_boundary() has succeeded on it.
C28_StartBoundaryRequired ==
    [][\A b \in BuilderIds :
          (/\ BuilderStep(b, "build")
           /\ builder[b].frequency \in CalendarAndTimeKinds
           /\ last'.res = Ok)
          => StartBoundarySucceeded(b)]_vars

SettingsInputs ==
    {Settings_new,
     [Settings_new EXCEPT !.enabled = Some(TRUE)],
     [Settings_new EXCEPT !.hidden = Some(TRUE), !.enabled = Some(FALSE)]}

\* a Boot or Daily builder with every part of the schedule set in turn
NextBuild ==
    \/ Handles
    \/ \E b \in BuilderIds :
        \/ Lifecycle(b)
        \/ create_boot(b)
        \/ create_daily(b)
        \/ \E id \in TriggerIds, enabled \in Enabled :
              Boot_trigger(b, id, enabled) \/ Daily_trigger(b, id, enabled)
        \/ \E start \in Starts : start_boundary(b, start)
        \/ \E act \in Actions : action(b, act)
        \/ \E name \in Texts : author(b, name)
        \/ \E text \in Texts : description(b, text)
        \/ \E p \in Principals : principal(b, p)
        \/ \E s \in SettingsInputs : settings(b, s)

SpecBuild == Init /\ [][NextBuild]_vars

\* C30: a build() that succeeds hands out the schedule exactly as the
\* preceding calls left it: triggers, actions, registration info, settings
\* and principal are the same before and after.
C30_BuildReturnsAccumulatedSchedule ==
    [][\A b \in BuilderIds :
          (BuilderStep(b, "build") /\ last'.res = Ok) =>
              /\ builder'[b].life = "schedule"
              /\ builder'[b].schedule = builder[b].schedule]_vars

\* a Schedule built with a trigger, two actions, an author, settings and a principal
C30_Witness ==
    \E b \in BuilderIds :
        /\ last = Call(b, "build", Ok, 0, 0)
        /\ builder[b].life = "schedule"
        /\ Len(builder[b].schedule.triggers) = 1
        /\ Len(builder[b].schedule.actions) = 2
        /\ builder[b].schedule.registration_info.author = "text"
        /\ builder[b].schedule.settings.enabled = Some(TRUE)
        /\ builder[b].schedule.principal.user_id = "MyServiceAccount"

(* ---------------- registration ---------------- *)

\* C31: register() consumes the Schedule: once it has been called on a
\* schedule, with either outcome, no step is a call on that schedule any more
\* and the value never changes again
C31_RegisterConsumesSchedule ==
    [][\A b \in BuilderIds :
          (builder[b].life = "registered" \/ (last.b = b /\ last.op = "register"))
              => /\ builder'[b] = builder[b]
                 /\ (last' = last \/ last'.b # b)]_vars

\* a registration that failed has consumed the schedule
C31_Witness ==
    \E b \in BuilderIds :
        /\ builder[b].life = "registered"
        /\ last.b = b /\ last.op = "register" /\ last.res = ComError

(* ---------------- the setters of every kind, before and after trigger() ---------------- *)

\* a Daily builder with every kind-agnostic setter, as in
\* examples/various_settings_task.rs
NextSetters ==
    \/ Handles
    \/ \E b \in BuilderIds :
        \/ Lifecycle(b)
        \/ create_daily(b)
        \/ \E id \in TriggerIds, enabled \in Enabled : Daily_trigger(b, id, enabled)
        \/ CommonSetters(b)
        \/ \E s \in SettingsInputs : settings(b, s)

SpecSetters == Init /\ [][NextSetters]_vars

TriggerBoundOps == {"start_boundary", "end_boundary", "execution_time_limit", "repetition"}
UnconditionalOps == {"author", "description", "action", "settings"}

\* start_boundary, end_boundary, execution_time_limit and repetition fail with
\* InvalidOperation while trigger() has not succeeded
FailsWithoutTrigger(b) ==
    \A op \in TriggerBoundOps :
        (BuilderStep(b, op) /\ ~TriggerSucceeded(b)) => last'.res = InvalidOperationError

\* C32 as stated: the four trigger-bound setters fail with InvalidOperation
\* before trigger(); author, description, action, settings and principal
\* succeed whatever the state of the builder.
C32_PrincipalAlwaysSucceeds ==
    [][\A b \in BuilderIds :
          /\ FailsWithoutTrigger(b)
          /\ \A op \in UnconditionalOps \cup {"principal"} :
                 BuilderStep(b, op) => last'.res = Ok]_vars

\* C32, amended: the four trigger-bound setters fail with InvalidOperation
\* before trigger(); author, description, action and settings succeed whatever
\* the state of the builder; principal succeeds whatever the state of the
\* builder unless its settings carry both a group id and a user id, and then
\* it fails with InvalidOperation.
C32_SettersAndTrigger ==
    [][\A b \in BuilderIds :
          /\ FailsWithoutTrigger(b)
          /\ \A op \in UnconditionalOps : BuilderStep(b, op) => last'.res = Ok
          /\ BuilderStep(b, "principal") =>
                 last'.res = IF last'.input.group_id # None /\ last'.input.user_id # None
                             THEN InvalidOperationError
                             ELSE Ok]_vars

\* principal() has been called with both identifiers and has failed
C32_Witness ==
    /\ last.op = "principal"
    /\ last.res = InvalidOperationError
    /\ last.input.group_id # None /\ last.input.user_id # None

(* ---------------- a setter called twice ---------------- *)

RewriteTexts == {"Matt", "Test dummy"}
RewriteStarts == {"2007-01-01T08:00:00", "2008-01-01T08:00:00"}

\* a Daily builder whose author, description and start boundary are set, and
\* set again with another value
NextRewrite ==
    \/ Handles
    \/ \E b \in BuilderIds :
        \/ Lifecycle(b)
        \/ create_daily(b)
        \/ \E id \in TriggerIds, enabled \in Enabled : Daily_trigger(b, id, enabled)
        \/ \E name \in RewriteTexts : author(b, name)
        \/ \E text \in RewriteTexts : description(b, text)
        \/ \E start \in RewriteStarts : start_boundary(b, start)

SpecRewrite == Init /\ [][NextRewrite]_vars

\* C33: last write wins.  After a successful call of a single-valued setter
\* the schedule holds the value of that call and no value of an earlier call
\* of the same setter: the author and the description are the ones just given,
\* and no trigger of the schedule carries another start boundary than the one
\* just given.
C33_LastWriteWins ==
    [][\A b \in BuilderIds :
          LET s == builder'[b].schedule
          IN /\ (BuilderStep(b, "author") /\ last'.res = Ok)
                    => s.registration_info.author = last'.input
             /\ (BuilderStep(b, "description") /\ last'.res = Ok)
                    => s.registration_info.description = last'.input
             /\ (BuilderStep(b, "start_boundary") /\ last'.res = Ok)
                    => \A i \in 1..Len(s.triggers) :
                           s.triggers[i].start_boundary \in {None, last'.input}]_vars

(* ---------------- the action collection ---------------- *)

ActionInputs == {"notepad.exe", "calc.exe"}

\* a Daily builder that is given different actions between its other calls
NextActions ==
    \/ Handles
    \/ \E b \in BuilderIds :
        \/ Lifecycle(b)
        \/ create_daily(b)
        \/ \E id \in TriggerIds, enabled \in Enabled : Daily_trigger(b, id, enabled)
        \/ \E n \in Intervals : Daily_days_interval(b, n)
        \/ \E act \in ActionInputs : action(b, act)
        \/ \E name \in Texts : author(b, name)
        \/ \E text \in Texts : description(b, text)
        \/ \E d \in Durations : execution_time_limit(b, d)
        \/ \E start \in Starts : start_boundary(b, start)
        \/ \E end \in Starts : end_boundary(b, end)
        \/ \E d \in Durations : repetition(b, d, d, TRUE)
        \/ \E p \in Principals : principal(b, p)

SpecActions == Init /\ [][NextActions]_vars

\* the builder, or the schedule built from it, exists before and after the step
Survives(b) ==
    /\ builder[b].life \in {"builder", "schedule"}
    /\ builder'[b].life \in {"builder", "schedule", "registered"}

\* C34: a successful action() appends exactly its action at the end of the
\* action collection, and no other operation on a builder or schedule that
\* stays in existence changes the collection; so n successful calls leave n
\* actions in the order of the calls.
C34_ActionAppendsOne ==
    [][\A b \in BuilderIds :
          /\ (BuilderStep(b, "action") /\ last'.res = Ok)
                 => builder'[b].schedule.actions =
                        Append(builder[b].schedule.actions, last'.input)
          /\ (Survives(b) /\ ~BuilderStep(b, "action"))
                 => builder'[b].schedule.actions = builder[b].schedule.actions]_vars

\* two different actions are held in the order of their calls, after a
\* further setter call
C34_Witness ==
    \E b \in BuilderIds :
        /\ builder[b].schedule.actions = <<"notepad.exe", "calc.exe">>
        /\ last.b = b /\ last.op = "start_boundary" /\ last.res = Ok

(* ---------------- two builders of one runtime handle ---------------- *)

\* sb and sb2 of examples/multiple_tasks.rs
BuilderPair == {"sb", "sb2"}

PairPrincipals == {PrincipalSettings("Group", None)}
PairSettings == {[Settings_new EXCEPT !.enabled = Some(TRUE)]}

InitPair ==
    /\ strong = [r \in RuntimeIds |-> 0]
    /\ comState = [r \in RuntimeIds |-> "unused"]
    /\ uninits = [r \in RuntimeIds |-> 0]
    /\ held = [r \in RuntimeIds |-> 0]
    /\ builder = [b \in BuilderPair |-> NoBuilder]
    /\ last = NoCall
    /\ InitThreads
    /\ InitLookup
    /\ InitDuration
    /\ InitEncoding

\* the calls of the two Daily builders in any interleaving
NextPair ==
    \/ \E r \in RuntimeIds : \E i \in Initialized : ComRuntime_new(r, i)
    \/ \E b \in BuilderPair :
        \/ \E r \in RuntimeIds, ok \in Created : ScheduleBuilder_new(b, r, ok)
        \/ create_daily(b)
        \/ \E id \in TriggerIds, enabled \in Enabled : Daily_trigger(b, id, enabled)
        \/ \E act \in Actions : action(b, act)
        \/ \E start \in Starts : start_boundary(b, start)
        \/ \E p \in PairPrincipals : principal(b, p)
        \/ \E s \in PairSettings : settings(b, s)

SpecPair == InitPair /\ [][NextPair]_vars

\* C35: a call on one builder leaves every other builder as it was: its
\* trigger and trigger collection, actions, settings, principal and
\* start-boundary obligation, its kind and its handle clone.  Of the state of
\* the runtime only the reference count is common to them.
C35_BuildersAreIndependent ==
    [][\A b \in BuilderPair, c \in BuilderPair :
          (c # b /\ <<builder, last>>' # <<builder, last>> /\ last'.b = b)
              => builder'[c] = builder[c]]_vars

\* both builders come from the same handle and hold different schedules
C35_Witness ==
    /\ builder["sb"].life = "builder" /\ builder["sb2"].life = "builder"
    /\ builder["sb"].origin = builder["sb2"].origin
    /\ Len(builder["sb"].schedule.triggers) = 1
    /\ Len(builder["sb"].schedule.actions) = 1
    /\ builder["sb"].schedule.principal.group_id # None
    /\ builder["sb2"].schedule = Schedule
    /\ strong["com"] = 3

(* ---------------- handle references of builders ---------------- *)

\* the builders that hold a clone of the handle of runtime r
BuildersOf(r) == {b \in DOMAIN builder : IsBuilder(b) /\ builder[b].com = r}

\* C36: no builder operation leaks a handle reference.  The reference count of
\* a runtime is the number of ComRuntime values the caller holds plus the
\* number of live builders made from it; a value that is no builder (before
\* new, after a failed new, after an error, after build) holds no clone.
C36_NoLeakedReference ==
    /\ \A r \in RuntimeIds : strong[r] = held[r] + Cardinality(BuildersOf(r))
    /\ \A b \in DOMAIN builder : ~IsBuilder(b) => builder[b].com = None

\* a setter has returned an error: the builder is gone and the count is back
\* at the number of handles the caller holds
C36_Witness ==
    \E b \in BuilderIds, r \in RuntimeIds :
        /\ last.b = b /\ last.op = "end_boundary" /\ last.res = InvalidOperationError
        /\ builder[b].life = "dropped" /\ builder[b].origin = r
        /\ held[r] = 2 /\ strong[r] = 2

(* ---------------- principal ---------------- *)

\* C37: whatever principal() calls were made, the principal of the schedule
\* never has a group id and a user id at once.
C37_GroupOrUserNotBoth ==
    \A b \in BuilderIds :
        ~ /\ builder[b].schedule.principal.group_id # None
          /\ builder[b].schedule.principal.user_id # None

(* ---------------- the kind of a builder ---------------- *)

CreateOps ==
    {"create_boot", "create_daily", "create_event", "create_idle", "create_logon",
     "create_monthly", "create_monthly_dow", "create_registration", "create_time",
     "create_weekly"}

\* C38: the kind is chosen once.  create_<kind>() is only ever applied to a
\* Base builder and gives it a kind; a builder that has a kind keeps it through
\* every later step; and the trigger a trigger() call creates is of the kind
\* of the builder it is called on.
C38_KindChosenOnce ==
    [][\A b \in BuilderIds :
          /\ (\E op \in CreateOps : BuilderStep(b, op))
                 => /\ builder[b].frequency = Base
                    /\ builder'[b].frequency \in Kinds
          /\ builder[b].frequency \in Kinds
                 => builder'[b].frequency = builder[b].frequency
          /\ (BuilderStep(b, "trigger") /\ last'.res = Ok)
                 => LET s == builder'[b].schedule
                    IN /\ s.trigger = Len(s.triggers)
                       /\ s.triggers[s.trigger].kind = builder[b].frequency]_vars

\* a Weekly builder after two trigger() calls and a setter: both triggers are Weekly
C38_Witness ==
    \E b \in BuilderIds :
        /\ IsBuilder(b)
        /\ builder[b].frequency = Weekly
        /\ Len(builder[b].schedule.triggers) = 2
        /\ \A i \in 1..2 : builder[b].schedule.triggers[i].kind = Weekly
        /\ last.op = "weeks_interval"

(* ---------------- settings ---------------- *)

\* C39: settings(s) succeeds, gives every task setting whose field of s is
\* Some the value of that field, leaves every task setting whose field is
\* None and everything else of the schedule as it was; with Settings::new()
\* nothing changes.
C39_SettingsWritesSomeFields ==
    [][\A b \in BuilderIds :
          BuilderStep(b, "settings") =>
              LET old == builder[b].schedule
                  new == builder'[b].schedule
                  s == last'.input
              IN /\ last'.res = Ok
                 /\ \A f \in DOMAIN old.settings :
                        new.settings[f] = IF s[f] = Absent THEN old.settings[f] ELSE s[f]
                 /\ [new EXCEPT !.settings = old.settings] = old
                 /\ s = Settings_new => new = old]_vars

\* `hidden` keeps the value of an earlier call after a settings() that gives
\* only `enabled`
C39_Witness ==
    \E b \in BuilderIds :
        /\ last.b = b /\ last.op = "settings"
        /\ last.input = [Settings_new EXCEPT !.enabled = Some(TRUE)]
        /\ builder[b].schedule.settings = [enabled |-> Some(TRUE), hidden |-> Some(TRUE)]

(* ---------------- the path of get_schedule ---------------- *)

MaxPathLen == 4

PathChars == {Backslash, "T", "f"}

RECURSIVE PathsOfLen(_)
PathsOfLen(n) ==
    IF n = 0 THEN {<< >>}
    ELSE {Append(p, c) : p \in PathsOfLen(n - 1), c \in PathChars}

\* outcomes of GetFolder and GetTask
Found == BOOLEAN

PathInputs == UNION {PathsOfLen(n) : n \in 0..MaxPathLen}

\* a TaskScheduler holds the handle of an initialized runtime; get_schedule is
\* called with some path
InitPath ==
    /\ strong = [r \in RuntimeIds |-> 1]
    /\ comState = [r \in RuntimeIds |-> "live"]
    /\ uninits = [r \in RuntimeIds |-> 0]
    /\ held = [r \in RuntimeIds |-> 1]
    /\ builder = [b \in BuilderIds |-> NoBuilder]
    /\ last = NoCall
    /\ InitThreads
    /\ InitDuration
    /\ InitEncoding
    /\ path \in PathInputs
    /\ lookup = NoLookup

NextPath ==
    \/ \E r \in RuntimeIds, found \in Found : get_schedule(r, found)
    \/ \E r \in RuntimeIds : Registered_drop(r)

SpecPath == InitPath /\ [][NextPath]_vars

\* the positions of the backslashes of p
Backslashes(p) == {i \in 1..Len(p) : p[i] = Backslash}
LastBackslash(p) == CHOOSE i \in Backslashes(p) : \A j \in Backslashes(p) : j <= i

\* C40: get_schedule splits the path at its last backslash.  Without a
\* backslash, or with the leading one as the only backslash, the task is
\* looked up in the root folder under the rest of the text; otherwise in the
\* folder that is the text before the last backslash, under the text after it.
C40_SplitAtLastBackslash ==
    lookup # NoLookup =>
        IF Backslashes(path) = {}
        THEN lookup.folder = RootFolder /\ lookup.name = path
        ELSE IF Backslashes(path) = {1}
             THEN lookup.folder = RootFolder /\ lookup.name = Tail(path)
             ELSE LET i == LastBackslash(path)
                  IN /\ lookup.folder = SubSeq(path, 1, i - 1)
                     /\ lookup.name = SubSeq(path, i + 1, Len(path))

\* "\\f\\T" is looked up in folder "\\f" under "T" (src/lib.rs: "\\Test folder\\TimeTaskName")
C40_Witness ==
    /\ path = <<Backslash, "f", Backslash, "T">>
    /\ lookup.folder = <<Backslash, "f">>
    /\ lookup.name = <<"T">>
    /\ lookup.res = Ok

====
